---- MODULE Spec2Model ----
(***************************************************************************)
(* View navigation of the Bank Statement Wizard terminal UI.               *)
(*                                                                         *)
(* The repository holds two runnable variants of the application:          *)
(*   ui/app.py        (run_ui, StatementsMenu uses MODEL.add_statement)    *)
(*   ui/menu_urwid.py (run_ui, the same application with its own           *)
(*                     StatementsMenu, whose file callback only resets)    *)
(* The variable "variant" says which of the two run_ui entry points is     *)
(* running.  The application class and its key handling are the same in    *)
(* both files.                                                             *)
(*                                                                         *)
(* State of a running BankStatementWizardApp:                              *)
(*   widget      loop.widget, the widget the urwid main loop renders       *)
(*   is_quitting BankStatementWizardApp.is_quitting                        *)
(*   running     FALSE once urwid.ExitMainLoop was raised                  *)
(*   main_focus  focus position in top_menu_columns (the 7 top buttons)    *)
(*   menu_focus  focused button of the dialog that is loop.widget          *)
(*               (1..3), 0 when loop.widget is not a menu dialog           *)
(*   statements  the arguments of the calls of MODEL.add_statement, in     *)
(*               call order                                                *)
(* History (not program state, recorded for stating the properties):       *)
(*   selected    the paths the FileSelector handed to on_selected          *)
(*   last        the input handled last, with the state it met             *)
(*   prev        the input handled before that one, with the state it met  *)
(*   clicked     the label of the button the last input activated, "none"  *)
(*               when it activated no button                               *)
(***************************************************************************)
EXTENDS Naturals, Sequences, FiniteSets

VARIABLES variant, widget, is_quitting, running, main_focus, menu_focus,
          statements, selected, last, prev, clicked

vars == <<variant, widget, is_quitting, running, main_focus, menu_focus,
          statements, selected, last, prev, clicked>>

(***************************************************************************)
(* Bounds                                                                  *)
(***************************************************************************)
\* at most this many files are selected in one run
MaxSelections == 2

\* the paths a FileSelector can hand over
Paths == {"/tmp/stmt.csv", "/tmp/other.csv"}

(***************************************************************************)
(* Widgets that can be loop.widget                                         *)
(***************************************************************************)
main_view == "main_view"
exit_view == "exit_view"
statements_menu == "Statements Menu"
add_statement_prompt == "Add Statement"
file_browser == "FileSelector.view"

Widgets == {main_view, exit_view, statements_menu, add_statement_prompt, file_browser}
MenuDialogs == {statements_menu, add_statement_prompt}

Variants == {"app", "menu_urwid"}

(***************************************************************************)
(* Keys.  "a" stands for every key with no meaning to any widget.          *)
(***************************************************************************)
Keys == {"esc", "enter", "f2", "f3", "f4", "f5", "f6", "f7", "f8",
         "left", "right", "up", "down", " ", "a"}

\* BankStatementWizardApp.menu_buttons, in order, by key_short_cut
menu_buttons == <<"f2", "f3", "f4", "f5", "f6", "f7", "f8">>

\* labels of the top menu buttons, in the order of menu_buttons
\* (TopMenuButton.from_label_and_key: label (Key))
TopButtonLabels ==
    <<"Statements Menu (F2)", "Filter Menu (F3)", "Plot Menu (F4)",
      "Export Menu (F5)", "Search (F6)", "Go To... (F7)", "Done (F8)">>

\* labels of the buttons of the two menu dialogs, in list order
MenuButtons(w) ==
    IF w = statements_menu
    THEN <<"Add Statement", "Remove Statement", "Done">>
    ELSE <<"Statement Type", "Browse", "Done">>

(***************************************************************************)
(* StatementsMenu (app.py 30-62, menu_urwid.py 98-130).  Every operation   *)
(* below says what the call does to loop.widget, to the focus of the       *)
(* dialog that is loop.widget, and to the model.                           *)
(***************************************************************************)
\* StatementsMenu._set_loop_widget: loop.widget = widget.  A freshly built
\* dialog has its focus on its first button; any other widget has no menu focus.
set_loop_widget(w) ==
    /\ widget' = w
    /\ menu_focus' = IF w \in MenuDialogs THEN 1 ELSE 0

\* reset_to_main_view going back to the menu root instead of main_view
reset_to_menu_root ==
    set_loop_widget(statements_menu)

\* BankStatementWizardApp.reset_to_main_view: loop.widget = main_view
reset_to_main_view ==
    set_loop_widget(main_view)

\* StatementsMenu._reset_loop_widget (app.py: parent().reset_to_main_view();
\* menu_urwid.py: parent.loop.widget = parent.main_view)
reset_loop_widget ==
    /\ reset_to_main_view
    /\ UNCHANGED statements

\* launch building the wrong dialog
launch_wrong_dialog ==
    /\ set_loop_widget(add_statement_prompt)
    /\ UNCHANGED statements

\* StatementsMenu.launch: shows the "Statements Menu" dialog
launch ==
    /\ set_loop_widget(statements_menu)
    /\ UNCHANGED statements

\* StatementsMenu._add_statement: shows the "Add Statement" dialog
add_statement_dialog ==
    /\ set_loop_widget(add_statement_prompt)
    /\ UNCHANGED statements

\* _browse_statement adding a statement before any file is selected
browse_statement_eager ==
    /\ set_loop_widget(file_browser)
    /\ statements' = IF Len(statements) < MaxSelections
                      THEN Append(statements, "/tmp/stmt.csv")
                      ELSE statements

\* StatementsMenu._browse_statement: shows the view of a new FileSelector
browse_statement ==
    /\ set_loop_widget(file_browser)
    /\ UNCHANGED statements

\* MODEL.add_statement(path), as a record of the call
add_statement(path) ==
    statements' = Append(statements, path)

\* _cb(path), the on_selected callback given to the FileSelector.
\* app.py: MODEL.add_statement(path); self._reset_loop_widget()
\* menu_urwid.py: self._reset_loop_widget()
cb(path) ==
    IF variant = "app"
    THEN /\ add_statement(path)
         /\ reset_to_main_view
    ELSE reset_loop_widget

\* a button with no callback connected to its "click" signal
no_callback ==
    UNCHANGED <<widget, menu_focus, statements>>

\* the launch callback connected to the Filter Menu button as well
top_two_buttons_have_callback(i) == i \in {1, 2}

\* the callback connected to button i of the top menu (create_top_menu_widgets):
\* only statements_menu_button has one
top_button_has_callback(i) == i = 1

\* the Statements Menu button connected to _add_statement instead of launch
top_button_click_skips_root(i) ==
    IF top_button_has_callback(i) THEN add_statement_dialog ELSE no_callback

top_button_click(i) ==
    IF top_button_has_callback(i) THEN launch ELSE no_callback

\* the callback of button i of dialog w (the urwid.Button constructors in
\* launch and _add_statement)
menu_button_has_callback(w, i) ==
    MenuButtons(w)[i] \in {"Add Statement", "Browse", "Done"}

\* both Done buttons given the callback of the Done button of launch
menu_button_click_done_resets(w, i) ==
    CASE MenuButtons(w)[i] = "Add Statement" -> add_statement_dialog
      [] MenuButtons(w)[i] = "Browse" -> browse_statement
      [] MenuButtons(w)[i] = "Done" -> reset_loop_widget
      [] OTHER -> no_callback

menu_button_click(w, i) ==
    CASE MenuButtons(w)[i] = "Add Statement" -> add_statement_dialog
      [] MenuButtons(w)[i] = "Browse" -> browse_statement
      [] MenuButtons(w)[i] = "Done" /\ w = statements_menu -> reset_loop_widget
      [] MenuButtons(w)[i] = "Done" /\ w = add_statement_prompt -> launch
      [] OTHER -> no_callback

\* TopMenuButton.activate: button.mouse_event(None, "mouse press", 1, 4, 0, True),
\* which emits the button's "click" signal
activate(i) ==
    top_button_click(i)

(***************************************************************************)
(* BankStatementWizardApp.unhandled_input                                  *)
(***************************************************************************)
\* the comparison of the shortcut loop inverted
shortcut_differs(key, i) ==
    key # menu_buttons[i]

\* key == button.key_short_cut
shortcut_matches(key, i) ==
    key = menu_buttons[i]

\* for button in self.menu_buttons: if key == button.key_short_cut: button.activate()
shortcut_loop(key) ==
    LET matching == {i \in DOMAIN menu_buttons : shortcut_matches(key, i)}
    IN  IF matching = {}
        THEN no_callback
        ELSE activate(CHOOSE i \in matching : \A j \in matching : i <= j)

\* unhandled_input whose cancel branch forgets to clear is_quitting
unhandled_input_keeps_quitting(key) ==
    IF is_quitting /\ key = "enter"
    THEN /\ running' = FALSE
         /\ UNCHANGED <<is_quitting, widget, menu_focus, statements>>
    ELSE IF is_quitting /\ key = "esc"
    THEN /\ set_loop_widget(main_view)
         /\ UNCHANGED <<is_quitting, running, statements>>
    ELSE IF ~is_quitting /\ key = "esc"
    THEN /\ is_quitting' = TRUE
         /\ set_loop_widget(exit_view)
         /\ UNCHANGED <<running, statements>>
    ELSE /\ shortcut_loop(key)
         /\ UNCHANGED <<is_quitting, running>>

\* unhandled_input whose confirm and cancel keys are swapped: Esc ends the loop
unhandled_input_esc_exits(key) ==
    IF is_quitting /\ key = "esc"
    THEN /\ running' = FALSE
         /\ UNCHANGED <<is_quitting, widget, menu_focus, statements>>
    ELSE IF is_quitting /\ key = "enter"
    THEN /\ is_quitting' = FALSE
         /\ set_loop_widget(main_view)
         /\ UNCHANGED <<running, statements>>
    ELSE IF ~is_quitting /\ key = "esc"
    THEN /\ is_quitting' = TRUE
         /\ set_loop_widget(exit_view)
         /\ UNCHANGED <<running, statements>>
    ELSE /\ shortcut_loop(key)
         /\ UNCHANGED <<is_quitting, running>>

\* unhandled_input whose Esc branch of the Normal mode forgets loop.widget
unhandled_input_no_exit_view(key) ==
    IF is_quitting /\ key = "enter"
    THEN /\ running' = FALSE
         /\ UNCHANGED <<is_quitting, widget, menu_focus, statements>>
    ELSE IF is_quitting /\ key = "esc"
    THEN /\ is_quitting' = FALSE
         /\ set_loop_widget(main_view)
         /\ UNCHANGED <<running, statements>>
    ELSE IF ~is_quitting /\ key = "esc"
    THEN /\ is_quitting' = TRUE
         /\ UNCHANGED <<widget, menu_focus, running, statements>>
    ELSE /\ shortcut_loop(key)
         /\ UNCHANGED <<is_quitting, running>>

\* unhandled_input whose cancel branch clears is_quitting and forgets loop.widget
unhandled_input_cancel_keeps_view(key) ==
    IF is_quitting /\ key = "enter"
    THEN /\ running' = FALSE
         /\ UNCHANGED <<is_quitting, widget, menu_focus, statements>>
    ELSE IF is_quitting /\ key = "esc"
    THEN /\ is_quitting' = FALSE
         /\ UNCHANGED <<widget, menu_focus, running, statements>>
    ELSE IF ~is_quitting /\ key = "esc"
    THEN /\ is_quitting' = TRUE
         /\ set_loop_widget(exit_view)
         /\ UNCHANGED <<running, statements>>
    ELSE /\ shortcut_loop(key)
         /\ UNCHANGED <<is_quitting, running>>

\* unhandled_input that compares the confirm key with "return", which urwid
\* never sends
unhandled_input_enter_ignored(key) ==
    IF is_quitting /\ key = "return"
    THEN /\ running' = FALSE
         /\ UNCHANGED <<is_quitting, widget, menu_focus, statements>>
    ELSE IF is_quitting /\ key = "esc"
    THEN /\ is_quitting' = FALSE
         /\ set_loop_widget(main_view)
         /\ UNCHANGED <<running, statements>>
    ELSE IF ~is_quitting /\ key = "esc"
    THEN /\ is_quitting' = TRUE
         /\ set_loop_widget(exit_view)
         /\ UNCHANGED <<running, statements>>
    ELSE /\ shortcut_loop(key)
         /\ UNCHANGED <<is_quitting, running>>

unhandled_input(key) ==
    IF is_quitting /\ key = "enter"
    THEN \* raise urwid.ExitMainLoop()
         /\ running' = FALSE
         /\ UNCHANGED <<is_quitting, widget, menu_focus, statements>>
    ELSE IF is_quitting /\ key = "esc"
    THEN /\ is_quitting' = FALSE
         /\ set_loop_widget(main_view)
         /\ UNCHANGED <<running, statements>>
    ELSE IF ~is_quitting /\ key = "esc"
    THEN /\ is_quitting' = TRUE
         /\ set_loop_widget(exit_view)
         /\ UNCHANGED <<running, statements>>
    ELSE /\ shortcut_loop(key)
         /\ UNCHANGED <<is_quitting, running>>

(***************************************************************************)
(* Routing of one input by urwid.MainLoop (the loop built in __init__ with *)
(* unhandled_input=self.unhandled_input): a key goes to loop.widget when   *)
(* that widget is selectable, and to unhandled_input when the widget       *)
(* hands it back.                                                          *)
(***************************************************************************)
\* keys the widgets of FileSelector.view keep for themselves (the selector is
\* not part of the sources; it is a list of files the user walks and picks from)
file_selector_consumes(key) ==
    key \in {"enter", " ", "up", "down", "left", "right"}

\* TRUE when loop.widget handles the key itself.
\*   main_view: the focused top button takes enter and space, the Columns
\*     of create_top_menu_widgets takes left/right while there is a column
\*     to move to;
\*   a menu dialog: the focused button takes enter and space, the list box of
\*     create_line_box takes up/down while there is a button to move to;
\*   exit_view: an Overlay over a BigText is not selectable and gets no key.
widget_consumes(key) ==
    CASE widget = main_view ->
            \/ key \in {"enter", " "}
            \/ key = "left" /\ main_focus > 1
            \/ key = "right" /\ main_focus < Len(menu_buttons)
      [] widget \in MenuDialogs ->
            \/ key \in {"enter", " "}
            \/ key = "up" /\ menu_focus > 1
            \/ key = "down" /\ menu_focus < Len(MenuButtons(widget))
      [] widget = file_browser -> file_selector_consumes(key)
      [] OTHER -> FALSE

\* the record of one input: the key, who handled it ("widget" or
\* "unhandled_input"), and loop.widget and is_quitting when it arrived
Event(key, route) ==
    [key |-> key, route |-> route, widget |-> widget, quitting |-> is_quitting]

NoEvent ==
    [key |-> "none", route |-> "none", widget |-> main_view, quitting |-> FALSE]

Remember(key, route) ==
    /\ last' = Event(key, route)
    /\ prev' = last

(***************************************************************************)
(* Actions                                                                 *)
(***************************************************************************)
Init ==
    /\ variant \in Variants
    /\ widget = main_view
    /\ is_quitting = FALSE
    /\ running = TRUE
    /\ main_focus = 1
    /\ menu_focus = 0
    /\ statements = <<>>
    /\ selected = <<>>
    /\ last = NoEvent
    /\ prev = NoEvent
    /\ clicked = "none"

\* a key that loop.widget hands back: MainLoop calls unhandled_input(key)
UnhandledKey(key) ==
    /\ running
    /\ ~widget_consumes(key)
    /\ unhandled_input(key)
    /\ Remember(key, "unhandled_input")
    /\ clicked' = IF \E i \in DOMAIN menu_buttons : key = menu_buttons[i]
                  THEN TopButtonLabels[CHOOSE i \in DOMAIN menu_buttons : key = menu_buttons[i]]
                  ELSE "none"
    /\ UNCHANGED <<variant, main_focus, selected>>

\* a key that loop.widget handles: a button is activated or the focus moves
WidgetKey(key) ==
    /\ running
    /\ widget_consumes(key)
    /\ IF widget = main_view
       THEN IF key \in {"enter", " "}
            THEN top_button_click(main_focus) /\ UNCHANGED main_focus
            ELSE /\ main_focus' = IF key = "left" THEN main_focus - 1 ELSE main_focus + 1
                 /\ no_callback
       ELSE IF widget \in MenuDialogs
       THEN IF key \in {"enter", " "}
            THEN menu_button_click(widget, menu_focus) /\ UNCHANGED main_focus
            ELSE /\ menu_focus' = IF key = "up" THEN menu_focus - 1 ELSE menu_focus + 1
                 /\ UNCHANGED <<widget, statements, main_focus>>
       ELSE \* the FileSelector moves inside its own view
            /\ no_callback
            /\ UNCHANGED main_focus
    /\ Remember(key, "widget")
    /\ clicked' = IF key \in {"enter", " "} /\ widget = main_view
                  THEN TopButtonLabels[main_focus]
                  ELSE IF key \in {"enter", " "} /\ widget \in MenuDialogs
                  THEN MenuButtons(widget)[menu_focus]
                  ELSE "none"
    /\ UNCHANGED <<variant, is_quitting, running, selected>>

\* a press of mouse button 1 on top button i of main_view: the Columns moves
\* its focus to the button, the button emits "click"
MouseTopButton(i) ==
    /\ running
    /\ widget = main_view
    /\ main_focus' = i
    /\ top_button_click(i)
    /\ Remember("mouse press", "widget")
    /\ clicked' = TopButtonLabels[i]
    /\ UNCHANGED <<variant, is_quitting, running, selected>>

\* a press of mouse button 1 on button i of the menu dialog on screen
MouseMenuButton(i) ==
    /\ running
    /\ widget \in MenuDialogs
    /\ i \in DOMAIN MenuButtons(widget)
    /\ IF menu_button_has_callback(widget, i)
       THEN menu_button_click(widget, i)
       ELSE menu_focus' = i /\ UNCHANGED <<widget, statements>>
    /\ Remember("mouse press", "widget")
    /\ clicked' = MenuButtons(widget)[i]
    /\ UNCHANGED <<variant, is_quitting, running, main_focus, selected>>

\* the FileSelector on screen calls on_selected(path)
FileSelected(path) ==
    /\ running
    /\ widget = file_browser
    /\ Len(selected) < MaxSelections
    /\ selected' = Append(selected, path)
    /\ cb(path)
    /\ Remember("on_selected", "widget")
    /\ clicked' = "none"
    /\ UNCHANGED <<variant, is_quitting, running, main_focus>>

Next ==
    \/ \E key \in Keys : UnhandledKey(key)
    \/ \E key \in Keys : WidgetKey(key)
    \/ \E i \in DOMAIN menu_buttons : MouseTopButton(i)
    \/ \E i \in 1..3 : MouseMenuButton(i)
    \/ \E path \in Paths : FileSelected(path)

Spec == Init /\ [][Next]_vars

TypeOK ==
    /\ variant \in Variants
    /\ widget \in Widgets
    /\ is_quitting \in BOOLEAN
    /\ running \in BOOLEAN
    /\ main_focus \in DOMAIN menu_buttons
    /\ menu_focus \in 0..3
    /\ (widget \in MenuDialogs) <=> (menu_focus # 0)
    /\ Len(statements) <= MaxSelections
    /\ Len(selected) <= MaxSelections
    /\ last.widget \in Widgets
    /\ prev.widget \in Widgets

(***************************************************************************)
(* Properties                                                              *)
(***************************************************************************)
\* the screens a user can be on in Normal mode
NormalScreens == {main_view, statements_menu, add_statement_prompt, file_browser}

\* the dialogs open over main_view: loop.widget is one slot, so at most one
OpenModals ==
    IF widget \in {statements_menu, add_statement_prompt, file_browser}
    THEN <<widget>>
    ELSE <<>>

\* the last two inputs were Esc in Normal mode on screen w, then Esc again
EscEscFrom(w) ==
    /\ prev.key = "esc" /\ prev.route = "unhandled_input"
    /\ ~prev.quitting /\ prev.widget = w
    /\ last.key = "esc" /\ last.route = "unhandled_input"
    /\ last.quitting

\* C1: whenever is_quitting is true, loop.widget is exit_view.
QuittingShowsExitView ==
    is_quitting => widget = exit_view

\* C2: a key other than Enter and Esc that arrives while the quit confirmation
\* is shown leaves is_quitting true and exit_view on screen.
ConfirmingIgnoresOtherKeys ==
    (last.quitting /\ last.widget = exit_view /\ last.key \in Keys \ {"enter", "esc"})
        => (is_quitting /\ widget = exit_view)

\* C3: Esc followed by Esc, started in Normal mode on any screen S, ends in
\* Normal mode on the same screen S.
EscEscRestoresScreen ==
    \A w \in NormalScreens :
        EscEscFrom(w) => (widget = w /\ ~is_quitting)

\* C4: Esc followed by Esc, started in Normal mode on main_view, ends in
\* Normal mode on main_view.
EscEscFromMainView ==
    EscEscFrom(main_view) => (widget = main_view /\ ~is_quitting /\ running)

EscEscFromMainViewHappens ==
    EscEscFrom(main_view)

\* C5: F8 pressed in Normal mode on the Statements menu that F2 opened from
\* main_view closes the menu: no modal is open and main_view is on screen.
F8ClosesStatementsMenu ==
    ( /\ prev.key = "f2" /\ prev.widget = main_view /\ ~prev.quitting
      /\ last.key = "f8" /\ last.widget = statements_menu /\ ~last.quitting )
        => (widget = main_view /\ OpenModals = <<>>)

\* C6: F2 pressed in Normal mode on main_view puts the Statements menu on
\* screen as the only open modal and leaves the mode Normal.
F2OpensStatementsMenu ==
    (last.key = "f2" /\ last.widget = main_view /\ ~last.quitting)
        => ( /\ widget = statements_menu
             /\ OpenModals = <<statements_menu>>
             /\ ~is_quitting
             /\ running )

F2OpensStatementsMenuHappens ==
    last.key = "f2" /\ last.widget = main_view /\ ~last.quitting

\* C7: the calls of add_statement are exactly the paths the FileSelector
\* confirmed, one call per confirmation, in order, and the call is made by the
\* time the file browser is left.
AddStatementPerSelection ==
    statements = selected

\* C8 as claimed: after the FileSelector confirms a path, the Add Statement
\* prompt is on screen again.
SelectionReturnsToPrompt ==
    (last.key = "on_selected" /\ last.widget = file_browser)
        => widget = add_statement_prompt

\* C8 as amended: after the FileSelector confirms a path, main_view is on
\* screen with no modal open, and the mode is what it was.
SelectionReturnsToMainView ==
    (last.key = "on_selected" /\ last.widget = file_browser)
        => ( /\ widget = main_view
             /\ OpenModals = <<>>
             /\ is_quitting = last.quitting )

SelectionHappens ==
    /\ last.key = "on_selected" /\ last.widget = file_browser
    /\ prev.widget = add_statement_prompt
    /\ selected # <<>>

\* C9: only the on_selected callback of the FileSelector on screen calls
\* add_statement; every other step leaves the calls as they are.
OnlySelectionAddsStatement ==
    [][ statements' # statements
            => ( /\ widget = file_browser
                 /\ last'.key = "on_selected"
                 /\ Len(selected') = Len(selected) + 1 ) ]_vars

BrowserLeftWithoutSelection ==
    /\ last.widget = file_browser
    /\ last.key \in {"esc", "f2"}
    /\ widget # file_browser
    /\ prev.key \in {"enter", " ", "mouse press"}
    /\ prev.widget = add_statement_prompt
    /\ statements = <<>> /\ selected = <<>>

\* C10: a key that is not a shortcut, not Esc and not Enter, and that
\* loop.widget hands back, leaves is_quitting and loop.widget as they were and
\* does not end the main loop.
UnknownKeyIsNoOp ==
    ( /\ last.route = "unhandled_input"
      /\ last.key \in Keys \ ({"esc", "enter"} \cup {menu_buttons[i] : i \in DOMAIN menu_buttons}) )
        => ( /\ widget = last.widget
             /\ is_quitting = last.quitting
             /\ running )

UnknownKeyHappens ==
    /\ last.route = "unhandled_input"
    /\ last.key = "a"
    /\ last.widget = statements_menu

\* C11: the main loop ends only in a step that hands Enter to unhandled_input
\* while is_quitting is true, and once it has ended nothing changes any more.
ExitOnlyByConfirmedEnter ==
    [][ /\ (running /\ ~running')
            => ( /\ is_quitting
                 /\ last'.key = "enter"
                 /\ last'.route = "unhandled_input"
                 /\ last'.quitting )
        /\ ~running => FALSE ]_vars

ExitedByEnter ==
    /\ ~running
    /\ last.key = "enter" /\ last.quitting
    /\ prev.key = "esc" /\ ~prev.quitting

\* C12: Esc pressed in Normal mode, on main_view, a menu dialog or the file
\* browser, sets is_quitting and puts exit_view on screen in the same step.
EscEntersConfirmation ==
    (last.key = "esc" /\ ~last.quitting /\ last.widget \in NormalScreens)
        => ( /\ last.route = "unhandled_input"
             /\ is_quitting
             /\ widget = exit_view
             /\ running )

EscFromPromptHappens ==
    last.key = "esc" /\ ~last.quitting /\ last.widget = add_statement_prompt

\* C13: Done goes back one step: activated on the Add Statement prompt it puts
\* the Statements menu on screen, activated on the Statements menu it puts
\* main_view on screen with no modal open.
DoneGoesBackOneStep ==
    /\ (clicked = "Done" /\ last.widget = add_statement_prompt)
           => (widget = statements_menu /\ OpenModals = <<statements_menu>>)
    /\ (clicked = "Done" /\ last.widget = statements_menu)
           => (widget = main_view /\ OpenModals = <<>>)

DoneOnPromptHappens ==
    /\ clicked = "Done" /\ last.widget = add_statement_prompt
    /\ prev.widget = statements_menu

\* C14: the file browser comes on screen only by activating Browse on the Add
\* Statement prompt, and the Add Statement prompt only by activating Add
\* Statement on the Statements menu; neither is entered from main_view.
FlowStepsInOrder ==
    [][ /\ (widget' = file_browser /\ widget # file_browser)
            => (widget = add_statement_prompt /\ clicked' = "Browse")
        /\ (widget' = add_statement_prompt /\ widget # add_statement_prompt)
            => (widget = statements_menu /\ clicked' = "Add Statement") ]_vars

BrowserEnteredInOrder ==
    /\ widget = file_browser
    /\ clicked = "Browse" /\ last.widget = add_statement_prompt
    /\ prev.widget = statements_menu

\* the shortcuts and menu entries with nothing behind them
ReservedKeys == {"f3", "f4", "f5", "f6", "f7"}
ReservedEntries == {"Remove Statement", "Statement Type"}

\* C15: a step that handles F3..F7 in unhandled_input, or that activates
\* Remove Statement or Statement Type, changes neither is_quitting nor
\* loop.widget, calls add_statement not at all and does not end the loop.
ReservedAreNoOps ==
    [][ ( \/ (last'.key \in ReservedKeys /\ last'.route = "unhandled_input")
          \/ clicked' \in ReservedEntries )
            => UNCHANGED <<widget, is_quitting, statements, running>> ]_vars

ReservedKeyHappens ==
    /\ last.key \in ReservedKeys /\ last.route = "unhandled_input"
    /\ last.widget = add_statement_prompt
    /\ prev.key = "mouse press" /\ prev.widget = add_statement_prompt
    /\ clicked = "Filter Menu (F3)"

\* C16: exit_view is on screen only while is_quitting is true; a step that
\* puts exit_view on screen leaves is_quitting true, and a step that clears
\* is_quitting puts main_view on screen.
ExitViewOnlyWhileQuitting ==
    /\ [](widget = exit_view => is_quitting)
    /\ [][ /\ (widget' = exit_view /\ widget # exit_view) => is_quitting'
           /\ (is_quitting /\ ~is_quitting') => widget' = main_view ]_vars

QuitCancelledFromMenu ==
    /\ ~is_quitting /\ widget = main_view
    /\ last.key = "esc" /\ last.quitting /\ last.widget = exit_view
    /\ prev.key = "esc" /\ prev.widget = statements_menu

\* C17: in Normal mode the widget on screen hands Esc back, exit_view hands
\* Enter back, and Esc handled in Normal mode followed at once by Enter ends
\* the main loop; while is_quitting is true Esc is handed back as well, so a
\* running wizard is never more than Esc, Esc, Enter away from its exit.
EscEnterTerminates ==
    /\ (running /\ ~is_quitting) => ~widget_consumes("esc")
    /\ (running /\ is_quitting) => ~widget_consumes("esc")
    /\ (running /\ widget = exit_view) => ~widget_consumes("enter")
    /\ ( /\ prev.key = "esc" /\ ~prev.quitting /\ prev.widget \in NormalScreens
         /\ last.key = "enter" /\ last.widget = exit_view )
           => ~running

EscEnterFromBrowserHappens ==
    /\ prev.key = "esc" /\ ~prev.quitting /\ prev.widget = file_browser
    /\ last.key = "enter" /\ last.widget = exit_view
    /\ ~running

====
